---- MODULE Spec2Model ----
(***************************************************************************)
(* Connection lifecycle and request gateway of the KotobaID backend:       *)
(* the VertexAIConfig singleton (config/vertexai.js), the ensureVertexAI   *)
(* and addVertexAIModel middleware (middleware/vertexaiMiddleware.js), the *)
(* router of routes/vertexai.js and the startup call of server.js.         *)
(*                                                                         *)
(* JavaScript runs each piece of code between two awaits atomically, so    *)
(* one action is one such piece: a caller's code up to its first           *)
(* suspension, or the continuation that a settled promise resumes.         *)
(***************************************************************************)
EXTENDS Integers, FiniteSets, Sequences, TLC

\* number of HTTP requests routed under /api/vertexai in one behaviour
MaxReq == 1

Startup == 0
Requests == 1..MaxReq
Callers == {Startup} \cup Requests

(***************************************************************************)
(* The environment read by initialize(): process.env and the file system.  *)
(***************************************************************************)
Unset == ""
CredPaths == {"./service-account.json", "./missing.json"}
CredEnvValues == {Unset} \cup CredPaths

\* path.resolve(serviceAccountPath): relative to the working directory
Resolve(p) ==
  CASE p = "./service-account.json" -> "/app/service-account.json"
    [] p = "./missing.json" -> "/app/missing.json"
    [] OTHER -> p

ResolvedPaths == {Resolve(p) : p \in CredPaths}

(***************************************************************************)
(* Errors: an Error object is modelled by its message, split into the      *)
(* fixed text (kind) and the interpolated part (detail).                   *)
(***************************************************************************)
NoError == [kind |-> "null", detail |-> ""]
EnvNotSet == [kind |-> "GOOGLE_APPLICATION_CREDENTIALS environment variable not set",
              detail |-> ""]
FileNotFound(fullPath) == [kind |-> "Service account file not found: ", detail |-> fullPath]
NotInitializedMsg == "Vertex AI not initialized. Call initialize() first."
RemoteFailedMsg == "remote call failed"
ConnTestFailed(inner) == [kind |-> "Vertex AI connection test failed: ", detail |-> inner]
Pending == [kind |-> "pending", detail |-> ""]

(***************************************************************************)
(* Requests: the route and the value of its required field.                *)
(***************************************************************************)
Templated == {"translate", "explain-kanji", "explain-grammar", "chat", "generate-examples"}
Routes == Templated \cup {"status", "test"}
Undefined == "undefined"
FieldValues == {Undefined, "", "Hello"}
LangValues == {Undefined, "Japanese"}
\* req.body: the required field of the route and, for /translate, targetLanguage
Bodies ==
  {b \in [route : Routes, field : FieldValues, lang : LangValues] :
     /\ b.route \notin Templated => b.field = Undefined
     /\ b.route # "translate" => b.lang = Undefined}
\* the requests sent while the connection is being established
EarlyBodies ==
  {b \in Bodies : /\ b.route \in {"translate", "explain-kanji", "status"}
                  /\ b.lang = Undefined
                  /\ b.route = "explain-kanji" => b.field = ""}

Falsy_OnlyUndefined(v) == v = Undefined

\* JavaScript !v for a string-or-undefined v
Falsy(v) == v = Undefined \/ v = ""

ValidationMessage(route) ==
  CASE route = "translate" -> "Text is required for translation"
    [] route = "explain-kanji" -> "Kanji character is required"
    [] route = "explain-grammar" -> "Grammar pattern is required"
    [] route = "chat" -> "Message is required"
    [] route = "generate-examples" -> "Word is required"
    [] OTHER -> ""

EnsureSuggestions ==
  << "Check if service account file exists",
     "Verify Google Cloud project ID is correct",
     "Ensure Vertex AI API is enabled",
     "Check service account permissions" >>

PermissionSuggestions ==
  << "Ensure service account has \"Vertex AI User\" role",
     "Ensure service account has \"AI Platform Developer\" role",
     "Check if Vertex AI API is enabled in your project",
     "Verify the service account key file is valid" >>

\* VertexAIConfig constructor defaults (temperature 0.7 in tenths)
MaxTokens == 1000
TemperatureTenths == 7
GatewayConfig ==
  [projectId |-> "dark-pipe-465302-g3", location |-> "us-central1",
   model |-> "gemini-pro", maxTokens |-> MaxTokens, temperature |-> TemperatureTenths]

NoSnapshot == [initialized |-> FALSE, error |-> NoError, config |-> GatewayConfig]
NoPerm == [returned |-> FALSE, hasPermissions |-> FALSE, error |-> NoError,
           suggestions |-> << >>]
NoOut == [kind |-> "none", http |-> 0, status |-> "", vertexAI |-> "", snapshot |-> NoSnapshot,
          perm |-> NoPerm]
NoDiag == [pc |-> "idle", calls |-> 0, signal |-> NoError, out |-> NoOut]

\* the fixed confidence 0.9 of every successful result, in tenths
ConfidenceTenths == 9
NoData == [echo |-> "", text |-> << >>, targetLanguage |-> "", confidence |-> 0,
           snapshot |-> NoSnapshot, permissions |-> NoPerm]
NoRes == [status |-> 0, success |-> FALSE, error |-> "", details |-> NoError,
          suggestions |-> << >>, data |-> NoData]

(***************************************************************************)
(* The remote model: generateContent() resolves with a text or rejects.    *)
(* A text is a sequence of characters.                                     *)
(***************************************************************************)
Whitespace == {" ", "\n", "\t"}
Texts ==
  { << "H", "a", "l", "o" >>,
    << " ", "H", "a", "l", "o", " ", "\n" >>,
    << "\t", "a", " ", "b" >>,
    << " ", "\n" >> }
QuotaExceeded == [kind |-> "Too many requests", detail |-> "quota exceeded"]
PermissionDenied == [kind |-> "Permission denied", detail |-> "aiplatform.endpoints.predict"]
RemoteFailed == [kind |-> RemoteFailedMsg, detail |-> ""]
RemoteErrors == {QuotaExceeded, PermissionDenied, RemoteFailed}
RemoteOutcomes ==
  {[err |-> NoError, text |-> t] : t \in Texts} \cup
  {[err |-> e, text |-> << >>] : e \in RemoteErrors}

RECURSIVE TrimStart(_)
TrimStart(t) ==
  IF t # << >> /\ Head(t) \in Whitespace THEN TrimStart(Tail(t)) ELSE t

RECURSIVE TrimEnd(_)
TrimEnd(t) ==
  IF t # << >> /\ t[Len(t)] \in Whitespace
  THEN TrimEnd(SubSeq(t, 1, Len(t) - 1)) ELSE t

Trim_StartOnly(t) == TrimStart(t)

\* String.prototype.trim()
Trim(t) == TrimEnd(TrimStart(t))

FailureMessage(route) ==
  CASE route = "translate" -> "Translation failed"
    [] route = "explain-kanji" -> "Kanji explanation failed"
    [] route = "explain-grammar" -> "Grammar explanation failed"
    [] route = "chat" -> "Chat response failed"
    [] route = "generate-examples" -> "Example generation failed"
    [] route = "test" -> "Failed to connect to Vertex AI"
    [] OTHER -> "Status check failed"

(***************************************************************************)
(* middleware/errorHandler.js.  A message is a sequence of words; an error *)
(* has a name, a kind and a message; NoMessage stands for a message that   *)
(* is undefined.                                                           *)
(***************************************************************************)
Messages ==
  { << "Not", "Found", "-", "/nope" >>,
    << "Vertex", "AI", "not", "initialized" >>,
    << "AI", "Vertex" >>,
    << "Too", "many", "requests" >>,
    << "Vertex", "AI", "Too", "many", "requests" >>,
    << "Too", "many", "Vertex", "AI", "requests" >>,
    << "Too", "many" >>,
    << "Cast", "to", "ObjectId", "failed" >>,
    << >> }
NoMessage == << "undefined" >>
ErrNames == {"Error", "CastError"}
ErrKinds == {Undefined, "ObjectId"}
Errs == [name : ErrNames, kind : ErrKinds, message : Messages \cup {NoMessage}]
\* res.statusCode when the error middleware is entered: untouched, or set by notFound
EnteredStatus == {200, 404}
NoEhOut == [sent |-> FALSE, status |-> 0, success |-> TRUE, error |-> NoMessage]
NoEh == [err |-> [name |-> "Error", kind |-> Undefined, message |-> NoMessage],
         statusCode |-> 200, out |-> NoEhOut]

\* String.prototype.includes() on sequences of words
Includes(m, pat) ==
  \E i \in 0..(Len(m) - Len(pat)) : SubSeq(m, i + 1, i + Len(pat)) = pat

\* `err.message && err.message.includes(pat)`
MessageIncludes(err, pat) ==
  /\ err.message # NoMessage
  /\ err.message # << >>
  /\ Includes(err.message, pat)

errorHandler_Always500(err, statusCode) ==
  [sent |-> TRUE, status |-> 500, success |-> FALSE, error |-> err.message]

errorHandler_RateLimitFirst(err, statusCode) ==
  LET r0 == [status |-> IF statusCode = 200 THEN 500 ELSE statusCode,
             error |-> err.message]
      r1 == IF err.name = "CastError" /\ err.kind = "ObjectId"
            THEN [status |-> 404, error |-> << "Resource", "not", "found" >>]
            ELSE r0
      r2 == IF MessageIncludes(err, << "Too", "many", "requests" >>)
            THEN [status |-> 429,
                  error |-> << "Too", "many", "requests,", "please", "try",
                               "again", "later" >>]
            ELSE r1
      r3 == IF MessageIncludes(err, << "Vertex", "AI" >>)
            THEN [status |-> 503,
                  error |-> << "AI", "service", "temporarily", "unavailable" >>]
            ELSE r2
  IN [sent |-> TRUE, status |-> r3.status, success |-> FALSE, error |-> r3.error]

\* errorHandler(err, req, res, next): the response it sends
errorHandler(err, statusCode) ==
  LET r0 == [status |-> IF statusCode = 200 THEN 500 ELSE statusCode,
             error |-> err.message]
      r1 == IF err.name = "CastError" /\ err.kind = "ObjectId"
            THEN [status |-> 404, error |-> << "Resource", "not", "found" >>]
            ELSE r0
      r2 == IF MessageIncludes(err, << "Vertex", "AI" >>)
            THEN [status |-> 503,
                  error |-> << "AI", "service", "temporarily", "unavailable" >>]
            ELSE r1
      r3 == IF MessageIncludes(err, << "Too", "many", "requests" >>)
            THEN [status |-> 429,
                  error |-> << "Too", "many", "requests,", "please", "try",
                               "again", "later" >>]
            ELSE r2
  IN [sent |-> TRUE, status |-> r3.status, success |-> FALSE, error |-> r3.error]

VARIABLES
  isInitialized,  \* VertexAIConfig.isInitialized
  initError,      \* VertexAIConfig.initError
  vertexAI,       \* VertexAIConfig.vertexAI: "null" or "client"
  credEnv,        \* process.env.GOOGLE_APPLICATION_CREDENTIALS
  files,          \* the resolved paths that exist on disk
  pc,             \* where each caller is suspended
  body,           \* req.body of each request
  settled,        \* value of the promise a caller is awaiting
  res,            \* the response sent for each request
  hist,           \* what each caller has done so far
  diag,           \* direct calls of getStatus / checkPermissions: the pending
                  \* permission check and the value returned in the last step
  eh              \* the error middleware: the error and response status it is
                  \* called with, and the response it sends

vars == << isInitialized, initError, vertexAI, credEnv, files,
           pc, body, settled, res, hist, diag, eh >>

NoHist == [began |-> FALSE, recov |-> FALSE, overlapped |-> {},
           credFailed |-> FALSE, built |-> FALSE,
           testCalls |-> 0, passed |-> FALSE, handlerRan |-> FALSE, prompts |-> 0,
           raw |-> << >>, sent |-> 0]

\* callers whose initialize() is suspended at `await this.testConnection()`
InFlight == {p \in Callers : pc[p] \in {"awaitTest", "awaitTestGen"}}

\* the ConnectionState of the specification, read off the singleton
State ==
  IF isInitialized THEN "Ready"
  ELSE IF InFlight # {} THEN "Initializing"
  ELSE IF initError # NoError THEN "Failed"
  ELSE "Uninitialized"

CfgOk == credEnv # Unset /\ Resolve(credEnv) \in files

Init ==
  /\ isInitialized = FALSE
  /\ initError = NoError
  /\ vertexAI = "null"
  /\ credEnv \in CredEnvValues
  /\ files \in SUBSET {"/app/service-account.json"}
  /\ pc = [p \in Callers |-> "idle"]
  /\ body \in [Requests -> EarlyBodies]
  /\ settled = [p \in Callers |-> NoError]
  /\ res = [p \in Requests |-> NoRes]
  /\ hist = [p \in Callers |-> NoHist]
  /\ diag = NoDiag
  /\ eh = NoEh

\* a step that is not a direct call returns nothing to a direct caller
Quiet == diag' = [diag EXCEPT !.out = NoOut]

(***************************************************************************)
(* VertexAIConfig                                                          *)
(***************************************************************************)
getModelThrows_Never(initialized) == FALSE

\* getModel(): throws unless isInitialized
getModelThrows(initialized) == ~initialized

getStatus_Undefined(initialized, err) ==
  [initialized |-> initialized,
   error |-> IF err = NoError THEN [kind |-> "undefined", detail |-> ""] ELSE err,
   config |-> GatewayConfig]

getStatus_NoMessage(initialized, err) ==
  [initialized |-> initialized, error |-> NoError, config |-> GatewayConfig]

\* getStatus(): the initialized flag, the message of initError (or null) and
\* the configuration
getStatus(initialized, err) ==
  [initialized |-> initialized,
   error |-> IF err # NoError /\ err.kind # "" THEN err ELSE NoError,
   config |-> GatewayConfig]

permissionResult_NoSuggestions(outcome) ==
  [returned |-> TRUE, hasPermissions |-> outcome = NoError, error |-> outcome,
   suggestions |-> << >>]

\* checkPermissions(): the value returned for the outcome of its getModel()
\* and generateContent() calls; every error is caught and returned
permissionResult(outcome) ==
  IF outcome = NoError
  THEN [returned |-> TRUE, hasPermissions |-> TRUE, error |-> NoError,
        suggestions |-> << >>]
  ELSE [returned |-> TRUE, hasPermissions |-> FALSE, error |-> outcome,
        suggestions |-> PermissionSuggestions]

credentialCheck_NoExistsCheck(env, fs) ==
  IF env = Unset THEN EnvNotSet ELSE NoError

\* initialize(), lines 25-34: the error thrown by the credential check
credentialCheck(env, fs) ==
  IF env = Unset THEN EnvNotSet
  ELSE IF Resolve(env) \notin fs THEN FileNotFound(Resolve(env))
  ELSE NoError

initializeCatch_Dropped(err) == NoError

\* initialize(), line 51: what the catch block stores in initError
initializeCatch(err) == err

\* initialize() up to its first suspension, called by caller p
initialize(p) ==
  LET e == credentialCheck(credEnv, files)
      h == [hist[p] EXCEPT !.began = TRUE, !.recov = (State = "Failed" /\ CfgOk),
                           !.overlapped = InFlight]
  IN IF e # NoError
     THEN \* thrown before the client is built; the catch block runs at once
          /\ initError' = initializeCatch(e)
          /\ settled' = [settled EXCEPT ![p] = e]
          /\ pc' = [pc EXCEPT ![p] = "awaitInit"]
          /\ hist' = [hist EXCEPT ![p] = [h EXCEPT !.credFailed = TRUE]]
          /\ UNCHANGED << isInitialized, vertexAI >>
     ELSE \* new VertexAI(...), then testConnection() up to its suspension
          /\ vertexAI' = "client"
          /\ IF getModelThrows(isInitialized)
             THEN /\ settled' = [settled EXCEPT ![p] = ConnTestFailed(NotInitializedMsg)]
                  /\ pc' = [pc EXCEPT ![p] = "awaitTest"]
                  /\ hist' = [hist EXCEPT ![p] = [h EXCEPT !.built = TRUE]]
             ELSE /\ settled' = [settled EXCEPT ![p] = Pending]
                  /\ pc' = [pc EXCEPT ![p] = "awaitTestGen"]
                  /\ hist' = [hist EXCEPT ![p] = [h EXCEPT !.built = TRUE, !.testCalls = 1]]
          /\ UNCHANGED << isInitialized, initError >>

\* initialize() resumed after `await this.testConnection()`
initializeResume(p) ==
  /\ pc[p] \in {"awaitTest", "awaitTestGen"}
  /\ \E outcome \in IF pc[p] = "awaitTest" THEN {settled[p]}
                     ELSE {NoError, ConnTestFailed(RemoteFailedMsg)} :
        /\ IF outcome = NoError
           THEN isInitialized' = TRUE /\ UNCHANGED initError
           ELSE initError' = initializeCatch(outcome) /\ UNCHANGED isInitialized
        /\ settled' = [settled EXCEPT ![p] = outcome]
  /\ pc' = [pc EXCEPT ![p] = "awaitInit"]
  /\ UNCHANGED << vertexAI, credEnv, files, body, res, hist >>
  /\ Quiet
  /\ UNCHANGED eh

(***************************************************************************)
(* server.js: the listen callback                                          *)
(***************************************************************************)
StartupInitialize ==
  /\ pc[Startup] = "idle"
  /\ initialize(Startup)
  /\ UNCHANGED << credEnv, files, body, res >>
  /\ Quiet
  /\ UNCHANGED eh

StartupResume ==
  /\ pc[Startup] = "awaitInit"
  /\ pc' = [pc EXCEPT ![Startup] = "done"]
  /\ UNCHANGED << isInitialized, initError, vertexAI, credEnv, files,
                  body, settled, res, hist >>
  /\ Quiet
  /\ UNCHANGED eh

(***************************************************************************)
(* routes/vertexai.js and middleware/vertexaiMiddleware.js                 *)
(***************************************************************************)
handler_NoReturn(p, b) ==
  /\ pc' = [pc EXCEPT ![p] = "awaitGen"]
  /\ IF b.route \in Templated /\ Falsy(b.field)
     THEN /\ res' = [res EXCEPT ![p] = [status |-> 400, success |-> FALSE,
                                        error |-> ValidationMessage(b.route),
                                        details |-> NoError, suggestions |-> << >>,
                                        data |-> NoData]]
          /\ hist' = [hist EXCEPT ![p].passed = TRUE, ![p].handlerRan = TRUE,
                                  ![p].prompts = 1, ![p].sent = @ + 1]
     ELSE /\ hist' = [hist EXCEPT ![p].passed = TRUE, ![p].handlerRan = TRUE,
                                  ![p].prompts = 1]
          /\ res' = IF b.route = "status"
                    THEN [res EXCEPT ![p].data.snapshot = getStatus(isInitialized, initError)]
                    ELSE res

\* the route handler up to its first suspension or its response
handler(p, b) ==
  IF b.route \in Templated /\ Falsy(b.field)
  THEN /\ res' = [res EXCEPT ![p] = [status |-> 400, success |-> FALSE,
                                     error |-> ValidationMessage(b.route),
                                     details |-> NoError, suggestions |-> << >>,
                                     data |-> NoData]]
       /\ pc' = [pc EXCEPT ![p] = "done"]
       /\ hist' = [hist EXCEPT ![p].passed = TRUE, ![p].handlerRan = TRUE,
                               ![p].sent = @ + 1]
  ELSE \* the prompt is sent (for /status: getStatus(), then the remote
       \* call of checkPermissions()) and the handler waits for the answer
       /\ pc' = [pc EXCEPT ![p] = "awaitGen"]
       /\ hist' = [hist EXCEPT ![p].passed = TRUE, ![p].handlerRan = TRUE,
                               ![p].prompts = 1]
       /\ res' = IF b.route = "status"
                 THEN [res EXCEPT ![p].data.snapshot = getStatus(isInitialized, initError)]
                 ELSE res

\* addVertexAIModel: attach the model and call next(), or answer 503
addVertexAIModel(p, b) ==
  IF getModelThrows(isInitialized)
  THEN /\ res' = [res EXCEPT ![p] = [status |-> 503, success |-> FALSE,
                                     error |-> "AI model unavailable",
                                     details |-> [kind |-> NotInitializedMsg, detail |-> ""],
                                     suggestions |-> << >>, data |-> NoData]]
       /\ pc' = [pc EXCEPT ![p] = "done"]
       /\ hist' = [hist EXCEPT ![p].passed = TRUE, ![p].sent = @ + 1]
  ELSE handler(p, b)

ensureCatch_500(err) ==
  [status |-> 500, success |-> FALSE, error |-> "AI service unavailable",
   details |-> err, suggestions |-> EnsureSuggestions, data |-> NoData]

\* ensureVertexAI, lines 11-26: the response of the catch block
ensureCatch(err) ==
  [status |-> 503, success |-> FALSE, error |-> "AI service unavailable",
   details |-> err, suggestions |-> EnsureSuggestions, data |-> NoData]

\* ensureVertexAI up to its first suspension
ensureVertexAI(p, b) ==
  IF ~isInitialized
  THEN /\ initialize(p)
       /\ UNCHANGED res
  ELSE /\ addVertexAIModel(p, b)
       /\ UNCHANGED << isInitialized, initError, vertexAI, settled >>

Dispatch_ValidationFirst(p, b) ==
  IF b.route \in Templated /\ Falsy(b.field)
  THEN /\ res' = [res EXCEPT ![p] = [status |-> 400, success |-> FALSE,
                                     error |-> ValidationMessage(b.route),
                                     details |-> NoError, suggestions |-> << >>,
                                     data |-> NoData]]
       /\ pc' = [pc EXCEPT ![p] = "done"]
       /\ hist' = [hist EXCEPT ![p].handlerRan = TRUE, ![p].sent = @ + 1]
       /\ UNCHANGED << isInitialized, initError, vertexAI, settled >>
  ELSE ensureVertexAI(p, b)

\* router.use(ensureVertexAI); router.use(addVertexAIModel); then the route
Dispatch(p, b) == ensureVertexAI(p, b)

\* a request arrives at the router
Arrive(p) ==
  /\ pc[p] = "idle"
  /\ Dispatch(p, body[p])
  /\ UNCHANGED << credEnv, files, body >>
  /\ Quiet
  /\ UNCHANGED eh

\* ensureVertexAI resumed after `await vertexAIConfig.initialize()`
ensureResume(p) ==
  /\ pc[p] = "awaitInit"
  /\ IF settled[p] = NoError
     THEN addVertexAIModel(p, body[p])
     ELSE /\ res' = [res EXCEPT ![p] = ensureCatch(settled[p])]
          /\ pc' = [pc EXCEPT ![p] = "done"]
          /\ hist' = [hist EXCEPT ![p].sent = @ + 1]
  /\ UNCHANGED << isInitialized, initError, vertexAI, credEnv, files,
                  body, settled >>
  /\ Quiet
  /\ UNCHANGED eh

\* the body of a successful response of route b.route for the answer t
handlerSuccess(b, t) ==
  IF b.route \in Templated
  THEN [NoData EXCEPT !.echo = b.field, !.text = Trim(t),
                      !.targetLanguage =
                         IF b.route # "translate" THEN ""
                         ELSE IF b.lang = Undefined THEN "Indonesian" ELSE b.lang,
                      !.confidence = ConfidenceTenths]
  ELSE [NoData EXCEPT !.text = t]

\* the catch block of a route handler: the response for a failed remote call
handlerCatch(route, err) ==
  [status |-> 500, success |-> FALSE, error |-> FailureMessage(route),
   details |-> err, suggestions |-> << >>, data |-> NoData]

handlerFail_Retry(p, err) ==
  IF hist[p].prompts < 2
  THEN /\ hist' = [hist EXCEPT ![p].prompts = @ + 1]
       /\ UNCHANGED << pc, res >>
  ELSE /\ res' = [res EXCEPT ![p] = handlerCatch(body[p].route, err)]
       /\ pc' = [pc EXCEPT ![p] = "done"]
       /\ hist' = [hist EXCEPT ![p].sent = @ + 1]

\* a rejected remote call: the handler answers at once
handlerFail(p, err) ==
  /\ res' = [res EXCEPT ![p] = handlerCatch(body[p].route, err)]
  /\ pc' = [pc EXCEPT ![p] = "done"]
  /\ hist' = [hist EXCEPT ![p].sent = @ + 1]

\* a route handler resumed when its remote call settles
handlerResume(p) ==
  /\ pc[p] = "awaitGen"
  /\ \E o \in RemoteOutcomes :
       IF body[p].route = "status"
       THEN \* checkPermissions() returns whatever happened; the handler answers 200
            /\ res' = [res EXCEPT ![p] =
                         [status |-> 200, success |-> TRUE, error |-> "",
                          details |-> NoError, suggestions |-> << >>,
                          data |-> [res[p].data EXCEPT
                                      !.permissions = permissionResult(o.err)]]]
            /\ pc' = [pc EXCEPT ![p] = "done"]
            /\ hist' = [hist EXCEPT ![p].sent = @ + 1]
       ELSE IF o.err # NoError
       THEN handlerFail(p, o.err)
       ELSE /\ res' = [res EXCEPT ![p] =
                         [status |-> 200, success |-> TRUE, error |-> "",
                          details |-> NoError, suggestions |-> << >>,
                          data |-> handlerSuccess(body[p], o.text)]]
            /\ pc' = [pc EXCEPT ![p] = "done"]
            /\ hist' = [hist EXCEPT ![p].raw = o.text, ![p].sent = @ + 1]
  /\ UNCHANGED << isInitialized, initError, vertexAI, credEnv, files,
                  body, settled >>
  /\ Quiet
  /\ UNCHANGED eh

(***************************************************************************)
(* The environment: process.env is loaded once (dotenv, server.js:6) and   *)
(* no code assigns it afterwards; the credentials file is created or       *)
(* removed by the operator while the process runs.                         *)
(***************************************************************************)
TouchFile ==
  /\ \E f \in {"/app/service-account.json"} :
       files' = IF f \in files THEN files \ {f} ELSE files \cup {f}
  /\ UNCHANGED << isInitialized, initError, vertexAI, credEnv,
                  pc, body, settled, res, hist >>
  /\ Quiet
  /\ UNCHANGED eh

(***************************************************************************)
(* Direct calls on the singleton: GET /health (server.js) reads            *)
(* getStatus(), scripts/test-vertex-ai.js calls checkPermissions().        *)
(***************************************************************************)
Health_NotInitialized ==
  /\ diag' = [diag EXCEPT !.out =
                [kind |-> "health", http |-> 200, status |-> "OK",
                 vertexAI |-> "not initialized",
                 snapshot |-> getStatus(isInitialized, initError),
                 perm |-> NoPerm]]
  /\ UNCHANGED << isInitialized, initError, vertexAI, credEnv, files,
                  pc, body, settled, res, hist, eh >>

Health ==
  /\ diag' = [diag EXCEPT !.out =
                [kind |-> "health", http |-> 200, status |-> "OK",
                 vertexAI |-> IF getStatus(isInitialized, initError).initialized
                              THEN "ready" ELSE "not initialized",
                 snapshot |-> getStatus(isInitialized, initError),
                 perm |-> NoPerm]]
  /\ UNCHANGED << isInitialized, initError, vertexAI, credEnv, files,
                  pc, body, settled, res, hist, eh >>

\* checkPermissions() up to its first suspension
checkPermissions ==
  /\ diag.pc = "idle"
  /\ IF getModelThrows(isInitialized)
     THEN diag' = [diag EXCEPT !.calls = 0, !.signal = NoError, !.out =
                     [NoOut EXCEPT !.kind = "perm",
                        !.perm = permissionResult([kind |-> NotInitializedMsg,
                                                   detail |-> ""])]]
     ELSE diag' = [pc |-> "awaitPerm", calls |-> 1, signal |-> NoError, out |-> NoOut]
  /\ UNCHANGED << isInitialized, initError, vertexAI, credEnv, files,
                  pc, body, settled, res, hist, eh >>

\* checkPermissions() resumed when its remote call settles
checkPermissionsResume ==
  /\ diag.pc = "awaitPerm"
  /\ \E o \in RemoteOutcomes :
       diag' = [pc |-> "idle", calls |-> diag.calls, signal |-> o.err,
                out |-> [NoOut EXCEPT !.kind = "perm",
                                      !.perm = permissionResult(o.err)]]
  /\ UNCHANGED << isInitialized, initError, vertexAI, credEnv, files,
                  pc, body, settled, res, hist, eh >>

Next ==
  \/ StartupInitialize
  \/ StartupResume
  \/ \E p \in Requests : Arrive(p)
  \/ \E p \in Callers : initializeResume(p)
  \/ \E p \in Requests : ensureResume(p)
  \/ TouchFile
  \/ Health
  \/ checkPermissions

Spec == Init /\ [][Next]_vars

(***************************************************************************)
(* The error middleware on its own: it is entered with an error and the    *)
(* status the response has at that moment, and sends one response.         *)
(***************************************************************************)
InitErr ==
  /\ isInitialized = FALSE
  /\ initError = NoError
  /\ vertexAI = "null"
  /\ credEnv = "./service-account.json"
  /\ files = {"/app/service-account.json"}
  /\ pc = [p \in Callers |-> "idle"]
  /\ body = [p \in Requests |-> [route |-> "status", field |-> Undefined,
                                  lang |-> Undefined]]
  /\ settled = [p \in Callers |-> NoError]
  /\ res = [p \in Requests |-> NoRes]
  /\ hist = [p \in Callers |-> NoHist]
  /\ diag = NoDiag
  /\ eh \in [err : Errs, statusCode : EnteredStatus, out : {NoEhOut}]

HandleError ==
  /\ ~eh.out.sent
  /\ eh' = [eh EXCEPT !.out = errorHandler(eh.err, eh.statusCode)]
  /\ UNCHANGED << isInitialized, initError, vertexAI, credEnv, files,
                  pc, body, settled, res, hist, diag >>

NextErr == HandleError

SpecErr == InitErr /\ [][NextErr]_vars

(***************************************************************************)
(* The server once the startup initialize() has succeeded as its lines     *)
(* 39-48 intend: the handle is stored and isInitialized is true.  The      *)
(* requests then pass both middleware and reach the route handlers.        *)
(***************************************************************************)
InitReady ==
  /\ isInitialized = TRUE
  /\ initError = NoError
  /\ vertexAI = "client"
  /\ credEnv = "./service-account.json"
  /\ files = {"/app/service-account.json"}
  /\ pc = [p \in Callers |-> IF p = Startup THEN "done" ELSE "idle"]
  /\ body \in [Requests -> Bodies]
  /\ settled = [p \in Callers |-> NoError]
  /\ res = [p \in Requests |-> NoRes]
  /\ hist = [p \in Callers |->
               IF p = Startup
               THEN [NoHist EXCEPT !.began = TRUE, !.built = TRUE, !.testCalls = 1]
               ELSE NoHist]
  /\ diag = NoDiag
  /\ eh = NoEh

NextReady ==
  \/ \E p \in Requests : Arrive(p)
  \/ \E p \in Requests : handlerResume(p)
  \/ Health
  \/ checkPermissions
  \/ checkPermissionsResume
  \/ TouchFile

SpecReady == InitReady /\ [][NextReady]_vars

(***************************************************************************)
(* The server from either start: as constructed, or once the startup       *)
(* initialize() has succeeded.                                             *)
(***************************************************************************)
InitAll == Init \/ InitReady

NextAll == Next \/ NextReady

SpecAll == InitAll /\ [][NextAll]_vars

TypeOK ==
  /\ isInitialized \in BOOLEAN
  /\ vertexAI \in {"null", "client"}
  /\ credEnv \in CredEnvValues
  /\ files \subseteq ResolvedPaths
  /\ \A p \in Callers : pc[p] \in {"idle", "awaitTest", "awaitTestGen", "awaitInit", "awaitGen", "done"}

(***************************************************************************)
(* Properties                                                              *)
(***************************************************************************)
\* a caller whose initialize() has run to its end
Completed(p) == hist[p].began /\ pc[p] \in {"awaitInit", "done"}

InvalidRequest(p) ==
  pc[p] # "idle" /\ body[p].route \in Templated /\ Falsy(body[p].field)

\* C1: single-flight -- at no time is more than one initialization attempt
\* in flight, however many callers ask for the connection at once.
C1_SingleFlight == Cardinality(InFlight) <= 1

\* C2: every caller that started while another caller's initialization was
\* in flight ends with the same outcome as that caller: both succeed or
\* both fail with the same error.
C2_SameOutcome ==
  \A p \in Callers : \A q \in hist[p].overlapped :
    (Completed(p) /\ Completed(q)) => settled[p] = settled[q]

\* C3: recovery -- an ensureReady() issued in the Failed state once the
\* credentials variable is set and the credentials file is present leaves
\* the connection Ready when it completes.
C3_Recovery ==
  \A p \in Callers : (hist[p].recov /\ Completed(p)) => isInitialized

\* C5: the client handle is present if and only if the connection is Ready.
C5_HandleIffReady == (vertexAI = "client") <=> isInitialized

C7_Begins(p) == ~hist[p].began /\ hist'[p].began

C7_Step ==
  \A p \in Callers :
    (C7_Begins(p) /\ (credEnv = Unset \/ Resolve(credEnv) \notin files)) =>
      /\ credEnv = Unset => settled'[p] = EnvNotSet
      /\ credEnv # Unset =>
           /\ settled'[p].kind = "Service account file not found: "
           /\ settled'[p].detail = Resolve(credEnv)
           /\ settled'[p].detail \notin files
      /\ pc'[p] = "awaitInit"
      /\ initError' = settled'[p]
      /\ ~isInitialized'
      /\ vertexAI' = vertexAI
      /\ ~hist'[p].built
      /\ hist'[p].testCalls = 0 /\ hist'[p].prompts = 0

C7_ConfigurationFailure ==
  /\ []((\A p \in Callers : ~hist[p].began) => (initError = NoError /\ vertexAI = "null"))
  /\ [][C7_Step]_vars

C7_Witness ==
  \E p \in Callers :
    /\ hist[p].credFailed
    /\ settled[p] = FileNotFound("/app/missing.json")
    /\ initError = settled[p]
    /\ vertexAI = "null"

\* C8: the connection state never leaves Ready, never returns to
\* Uninitialized once an attempt has started, and becomes Ready only from
\* Initializing.
C8_Edge ==
  /\ isInitialized => isInitialized'
  /\ State # "Uninitialized" => State' # "Uninitialized"
  /\ (State # "Ready" /\ State' = "Ready") => State = "Initializing"
  /\ (\E p \in Callers : hist[p].began) => State # "Uninitialized"

C8_StateMachine == [][C8_Edge]_vars

C8_Witness ==
  \E p \in InFlight : hist[p].recov /\ State = "Initializing" /\ initError # NoError

\* C10: a request whose ensureReady() failed is answered 503 with
\* success = false, the failure message and the fixed suggestions, and its
\* handler never runs: no prompt is sent to the remote model for it.
C10_ServiceUnavailable ==
  \A p \in Requests :
    (hist[p].began /\ settled[p] # NoError) =>
      /\ ~hist[p].passed /\ ~hist[p].handlerRan /\ hist[p].prompts = 0
      /\ pc[p] \in {"awaitTest", "awaitInit", "done"}
      /\ pc[p] = "done" =>
           /\ res[p].status = 503
           /\ res[p].success = FALSE
           /\ res[p].details = settled[p]
           /\ res[p].suggestions = EnsureSuggestions
           /\ Len(res[p].suggestions) = 4

C10_Witness ==
  \E p \in Requests :
    /\ pc[p] = "done" /\ hist[p].began
    /\ res[p].status = 503 /\ res[p].error = "AI service unavailable"
    /\ res[p].details = ConnTestFailed(NotInitializedMsg)

\* a request whose remote call was rejected and that has been answered
RemoteFailure(p) ==
  /\ pc[p] = "done" /\ hist[p].handlerRan /\ hist[p].prompts >= 1
  /\ res[p].details \in RemoteErrors

Unmatched(err) ==
  /\ ~(err.name = "CastError" /\ err.kind = "ObjectId")
  /\ ~MessageIncludes(err, << "Vertex", "AI" >>)
  /\ ~MessageIncludes(err, << "Too", "many", "requests" >>)

\* C12 as stated: every failure gets exactly one status, and a failure that
\* matches no known pattern is answered 500 whatever else holds.
C12_UnmatchedInternal ==
  eh.out.sent =>
    /\ eh.out.status \in {400, 429, 500, 503}
    /\ Unmatched(eh.err) => eh.out.status = 500

\* C12 as amended: every failure gets exactly one status from the closed
\* set {404, 429, 500, 503} with success = false; a failure that matches no
\* known pattern keeps the status the response had when the error middleware
\* was entered, and gets 500 only when that status was still 200.
C12_TotalClassification ==
  eh.out.sent =>
    /\ eh.out.status \in {404, 429, 500, 503}
    /\ eh.out.success = FALSE
    /\ Unmatched(eh.err) =>
         /\ eh.statusCode = 200 => eh.out.status = 500
         /\ eh.statusCode # 200 => eh.out.status = eh.statusCode
         /\ eh.out.error = eh.err.message

C12_Witness ==
  /\ eh.out.sent /\ Unmatched(eh.err)
  /\ eh.statusCode = 404 /\ eh.out.status = 404
  /\ eh.err.message = << "Not", "Found", "-", "/nope" >>

\* C13: no retries -- every request issues at most one remote call, and
\* the step in which its remote call fails is the step in which the failure
\* response is sent, without a further call.
C13_Step ==
  \A p \in Requests :
    (pc[p] = "awaitGen" /\ (pc'[p] # pc[p] \/ hist'[p] # hist[p] \/ res'[p] # res[p])) =>
       /\ pc'[p] = "done"
       /\ hist'[p].prompts = hist[p].prompts
       /\ res'[p].status \in {200, 500}

C13_NoRetry ==
  /\ [](\A p \in Requests :
          /\ hist[p].prompts <= 1
          /\ RemoteFailure(p) => (hist[p].prompts = 1 /\ ~res[p].success))
  /\ [][C13_Step]_vars

C13_Witness ==
  \E p \in Requests :
    /\ RemoteFailure(p) /\ body[p].route = "translate"
    /\ res[p].status = 500 /\ res[p].details = RemoteFailed
    /\ hist[p].prompts = 1

\* C14: a status query is answered with success and neither starts an
\* initialization attempt nor changes the connection state.
C14_StatusNoSideEffect ==
  \A p \in Requests :
    (body[p].route = "status" /\ pc[p] # "idle") =>
      /\ ~hist[p].began
      /\ pc[p] = "done" => res[p].success

\* C15: checkPermissions() called while the connection is not Ready fails
\* instead of returning a result value.
C15_NotReadyFails ==
  (diag.out.kind = "perm" /\ ~isInitialized) => ~diag.out.perm.returned

\* C16: checkPermissions() on a Ready connection issues exactly one remote
\* call and returns; accepted, the result is hasPermissions = true with
\* error = null; denied, it is hasPermissions = false with the error message
\* and the fixed four suggestions; the connection state is not changed.
C16_Result ==
  (diag.out.kind = "perm" /\ isInitialized) =>
    /\ diag.calls = 1
    /\ diag.out.perm.returned
    /\ diag.signal = NoError =>
         /\ diag.out.perm.hasPermissions
         /\ diag.out.perm.error = NoError
    /\ diag.signal # NoError =>
         /\ ~diag.out.perm.hasPermissions
         /\ diag.out.perm.error = diag.signal
         /\ diag.out.perm.suggestions = PermissionSuggestions
         /\ Len(diag.out.perm.suggestions) = 4

C16_Step ==
  (diag'.pc # diag.pc \/ diag'.out.kind = "perm") =>
     UNCHANGED << isInitialized, initError, vertexAI >>

C16_CheckPermissions == []C16_Result /\ [][C16_Step]_vars

C16_Witness ==
  /\ diag.out.kind = "perm" /\ isInitialized
  /\ diag.signal = PermissionDenied
  /\ ~diag.out.perm.hasPermissions
  /\ diag.calls = 1

\* C17: getStatus() called before any initialize() has been started returns
\* initialized = false and error = null together with the configuration.
C17_InitialStatus ==
  (diag.out.kind = "health" /\ \A p \in Callers : ~hist[p].began) =>
    /\ diag.out.snapshot.initialized = FALSE
    /\ diag.out.snapshot.error = NoError
    /\ diag.out.snapshot.config =
         [projectId |-> "dark-pipe-465302-g3", location |-> "us-central1",
          model |-> "gemini-pro", maxTokens |-> MaxTokens,
          temperature |-> TemperatureTenths]

C17_Witness ==
  /\ diag.out.kind = "health"
  /\ \A p \in Callers : ~hist[p].began
  /\ diag.out.snapshot.initialized = FALSE

\* C18: getStatus() can be called in every state, also while an
\* initialization attempt is in flight; it returns in the same step a
\* snapshot equal to the connection state at the call (initialized flag and
\* last error message) and changes nothing of the connection.
C18_Step ==
  diag'.out.kind = "health" =>
    /\ UNCHANGED << isInitialized, initError, vertexAI, credEnv, files,
                    pc, settled, res, hist >>
    /\ diag'.out.snapshot.initialized = isInitialized
    /\ diag'.out.snapshot.error = initError
    /\ diag'.pc = diag.pc

C18_StatusSnapshot ==
  /\ [](ENABLED Health)
  /\ [](diag.out.kind = "health" =>
          /\ diag.out.http = 200
          /\ diag.out.snapshot.initialized = isInitialized
          /\ diag.out.snapshot.error = initError
          /\ diag.out.vertexAI = IF isInitialized THEN "ready" ELSE "not initialized")
  /\ [][C18_Step]_vars

C18_Witness ==
  /\ diag.out.kind = "health"
  /\ InFlight # {}
  /\ initError # NoError
  /\ diag.out.snapshot.error = initError

\* C19: for every templated operation, a request that reaches the handler
\* with its required field absent or the empty string is answered 400 with
\* success = false and the route's message, and no remote call is issued.
C19_Validation ==
  \A p \in Requests :
    (/\ body[p].route \in {"translate", "explain-kanji", "explain-grammar",
                           "chat", "generate-examples"}
     /\ body[p].field \in {Undefined, ""}
     /\ hist[p].handlerRan) =>
       /\ pc[p] = "done"
       /\ res[p].status = 400
       /\ res[p].success = FALSE
       /\ res[p].error = ValidationMessage(body[p].route)
       /\ hist[p].prompts = 0

C19_Witness ==
  \E p \in Requests :
    /\ body[p].route = "explain-kanji" /\ body[p].field = ""
    /\ hist[p].handlerRan /\ res[p].status = 400
    /\ res[p].error = "Kanji character is required"

\* t is raw without its leading and trailing whitespace
IsTrimOf(t, raw) ==
  \E i \in 1..(Len(raw) + 1) : \E j \in 0..Len(raw) :
    /\ t = SubSeq(raw, i, j)
    /\ \A k \in 1..Len(raw) : (k < i \/ k > j) => raw[k] \in Whitespace
    /\ t # << >> => (t[1] \notin Whitespace /\ t[Len(t)] \notin Whitespace)

\* C20: a valid translate request on a Ready connection whose remote call
\* succeeds is answered with success, the returned text without its leading
\* and trailing whitespace, the request's text and targetLanguage echoed
\* ("Indonesian" when omitted) and the confidence 0.9; every successful
\* templated result carries that same confidence.
C20_Translate ==
  \A p \in Requests :
    /\ (body[p].route = "translate" /\ body[p].field \notin {Undefined, ""}
        /\ pc[p] = "done" /\ res[p].details = NoError) =>
          /\ res[p].status = 200
          /\ res[p].success
          /\ IsTrimOf(res[p].data.text, hist[p].raw)
          /\ res[p].data.echo = body[p].field
          /\ res[p].data.targetLanguage =
               IF body[p].lang = Undefined THEN "Indonesian" ELSE body[p].lang
    /\ (body[p].route \in Templated /\ res[p].status = 200) =>
          res[p].data.confidence = 9

C20_Witness ==
  \E p \in Requests :
    /\ body[p].route = "translate" /\ body[p].lang = Undefined
    /\ res[p].status = 200
    /\ hist[p].raw = << " ", "H", "a", "l", "o", " ", "\n" >>
    /\ res[p].data.text = << "H", "a", "l", "o" >>
    /\ res[p].data.targetLanguage = "Indonesian"

\* C21: no initialize() call completes successfully -- isInitialized is
\* false in every reachable state, and every initialize() that passes the
\* credential checks fails with 'Vertex AI connection test failed: Vertex AI
\* not initialized. Call initialize() first.' without a remote call.
C21_Step ==
  \A p \in Callers :
    (~hist[p].built /\ hist'[p].built) =>
       /\ pc'[p] = "awaitTest"
       /\ hist'[p].testCalls = 0

C22_Step ==
  diag'.out.kind = "health" =>
    /\ isInitialized' = isInitialized
    /\ initError' = initError
    /\ vertexAI' = vertexAI
    /\ \A p \in Callers : hist'[p].began = hist[p].began /\ pc'[p] = pc[p]

C22_Health ==
  /\ [](diag.out.kind = "health" =>
          /\ diag.out.http = 200
          /\ diag.out.status = "OK"
          /\ isInitialized => diag.out.vertexAI = "ready"
          /\ ~isInitialized => diag.out.vertexAI = "not initialized")
  /\ [][C22_Step]_vars

C22_Witness ==
  /\ diag.out.kind = "health"
  /\ isInitialized
  /\ diag.out.vertexAI = "ready"
  /\ diag.out.http = 200

\* C23: every request under /api/vertexai gets exactly one response --
\* ensureVertexAI either calls next() or sends its 503, addVertexAIModel
\* either calls next() or sends its 503, and a handler sends exactly one of
\* the 400, 200 and 500 responses; a response that was sent is never
\* replaced.
C23_Step ==
  \A p \in Requests :
    /\ hist'[p].sent \in {hist[p].sent, hist[p].sent + 1}
    /\ hist[p].sent = 1 => (res'[p] = res[p] /\ hist'[p].sent = 1)

C23_OneResponse ==
  /\ [](\A p \in Requests :
          /\ hist[p].sent <= 1
          /\ pc[p] = "done" <=> hist[p].sent = 1
          /\ (hist[p].sent = 1 /\ ~hist[p].passed) =>
               (res[p].status = 503 /\ res[p].error = "AI service unavailable")
          /\ (hist[p].passed /\ ~hist[p].handlerRan) =>
               /\ hist[p].sent = 1
               /\ res[p].status = 503 /\ res[p].error = "AI model unavailable"
          /\ hist[p].handlerRan =>
               /\ hist[p].passed
               /\ hist[p].sent = 0 => pc[p] = "awaitGen"
               /\ hist[p].sent = 1 => res[p].status \in {200, 400, 500})
  /\ [][C23_Step]_vars

C23_Witness ==
  \E p \in Requests :
    /\ hist[p].handlerRan /\ hist[p].sent = 1 /\ pc[p] = "done"
    /\ res[p].status = 200 /\ body[p].route = "translate"

\* the rules of the error middleware that match the error
IsBadObjectId(err) == err.name = "CastError" /\ err.kind = "ObjectId"
IsVertexAI(err) == MessageIncludes(err, << "Vertex", "AI" >>)
IsRateLimit(err) == MessageIncludes(err, << "Too", "many", "requests" >>)

\* C24: errorHandler applies its rules in a fixed order, later rules
\* overriding earlier ones -- the status starts as the response's current
\* status, or 500 if that is still 200 (notFound's 404 is kept); a message
\* containing 'Vertex AI' forces 503; a message containing 'Too many
\* requests' forces 429 and wins over the 'Vertex AI' rule; the body always
\* has success = false.
C24_RuleOrder ==
  eh.out.sent =>
    /\ eh.out.success = FALSE
    /\ IsRateLimit(eh.err) => eh.out.status = 429
    /\ (IsVertexAI(eh.err) /\ ~IsRateLimit(eh.err)) => eh.out.status = 503
    /\ (IsBadObjectId(eh.err) /\ ~IsVertexAI(eh.err) /\ ~IsRateLimit(eh.err)) =>
         eh.out.status = 404
    /\ (~IsBadObjectId(eh.err) /\ ~IsVertexAI(eh.err) /\ ~IsRateLimit(eh.err)) =>
         /\ eh.statusCode = 200 => eh.out.status = 500
         /\ eh.statusCode = 404 => eh.out.status = 404

C24_Witness ==
  /\ eh.out.sent
  /\ eh.err.message = << "Vertex", "AI", "Too", "many", "requests" >>
  /\ eh.err.name = "CastError" /\ eh.err.kind = "ObjectId"
  /\ eh.statusCode = 404
  /\ eh.out.status = 429

====
